---- MODULE Spec2Model ----
(***************************************************************************)
(* Model of the resume store of AI-Resume-Parser: the tables of models.py, *)
(* crud.create_or_update_resume / crud.get_or_create_skill, the            *)
(* delete_resume and read_resume handlers of main.py and the               *)
(* Project.split_technologies validator of schemas.py.                     *)
(*                                                                         *)
(* Storage is modelled as a read-committed relational store: a session's   *)
(* writes are buffered and applied atomically by db.commit(), which checks *)
(* the declared unique constraints; a failed flush rolls the session back. *)
(* Tables are sequences of rows in insertion (primary key) order.          *)
(***************************************************************************)
EXTENDS Integers, Sequences, FiniteSets, TLC

VARIABLES
    db,       \* the committed tables (one record, a field per table of models.py)
    sess,     \* per request: the SQLAlchemy session and the handler's position
    ncalls,   \* number of requests started so far
    autoflush,\* the autoflush setting of database.SessionLocal, fixed at start-up
    pre,      \* SeqSpec: the committed tables when the request in progress started
    tech      \* the technologies round trip of one Project (TechSpec)

vars == <<db, sess, ncalls, autoflush, pre, tech>>

\* ------------------------------------------------------------------ bounds
MaxCalls == 3         \* requests started in one behaviour
MaxTags == 2          \* technology tags of one incoming Project (TechSpec)
MaxTagLen == 2        \* characters of one technology tag (TechSpec)

Procs == {1, 2}       \* concurrent requests, each with its own session

\* ------------------------------------------------------------ Python values
NULL == "<null>"                          \* Python None / SQL NULL
Truthy(s) == s # NULL /\ s # ""           \* `if email:` on an Optional[str]

\* Text is a tuple of one-character strings, so that join/split/strip are computed.
Chars == {"g", ",", " "}
Comma == ","
Space == " "
OpenBrace == "{"
CloseBrace == "}"

RECURSIVE SeqToSet(_)
SeqToSet(s) == IF s = <<>> THEN {} ELSE {Head(s)} \cup SeqToSet(Tail(s))

Max(S) == CHOOSE x \in S : \A y \in S : y <= x

\* ", ".join(tags)                                          crud.py:72
RECURSIVE JoinTags(_)
JoinTags(tags) ==
    IF tags = <<>> THEN <<>>
    ELSE IF Len(tags) = 1 THEN tags[1]
    ELSE tags[1] \o <<Comma, Space>> \o JoinTags(Tail(tags))

\* str.split(','): always at least one piece                schemas.py:36
RECURSIVE SplitComma(_, _)
SplitComma(text, cur) ==
    IF text = <<>> THEN <<cur>>
    ELSE IF Head(text) = Comma THEN <<cur>> \o SplitComma(Tail(text), <<>>)
    ELSE SplitComma(Tail(text), Append(cur, Head(text)))

\* str.strip(): whitespace removed at both ends            schemas.py:36
RECURSIVE LStrip(_)
LStrip(t) == IF t # <<>> /\ Head(t) = Space THEN LStrip(Tail(t)) ELSE t
RECURSIVE RStrip(_)
RStrip(t) ==
    IF t # <<>> /\ t[Len(t)] = Space THEN RStrip(SubSeq(t, 1, Len(t) - 1)) ELSE t
Strip(t) == RStrip(LStrip(t))

\* An Optional value: <<>> is None, <<v>> is the value v.
NoneOpt == <<>>
Some(v) == <<v>>

\* What crud.py hands to models.Project(technologies=...): the joined text for a
\* non-empty list, otherwise the incoming value untouched (None or the empty list).
\*   kind "str": text v;  kind "null": None;  kind "list": the Python list [] itself
technologies_param(t) ==
    IF t = NoneOpt THEN [kind |-> "null", v |-> <<>>]
    ELSE IF t[1] # <<>> THEN [kind |-> "str", v |-> JoinTags(t[1])]
    ELSE [kind |-> "list", v |-> <<>>]

\* The text a driver that accepts a list parameter for a String column writes for
\* the empty list (its literal); a strict driver rejects the statement instead.
BindText(param) ==
    IF param.kind = "null" THEN NoneOpt
    ELSE IF param.kind = "str" THEN Some(param.v)
    ELSE Some(<<OpenBrace, CloseBrace>>)

NeedsLenientDriver(param) == param.kind = "list"

\* split_technologies without the strip() of each piece
split_technologies_NoStrip(v) ==
    IF v = NoneOpt THEN NoneOpt ELSE Some(SplitComma(v[1], <<>>))

\* Project.split_technologies: a stored text is split on commas and each piece
\* stripped; a NULL column is passed through.
split_technologies(v) ==
    IF v = NoneOpt THEN NoneOpt
    ELSE LET pieces == SplitComma(v[1], <<>>)
         IN  Some([i \in 1..Len(pieces) |-> Strip(pieces[i])])

\* ------------------------------------------------- incoming records (schemas.py)
PI(name, email, phone, location, linkedin_url) ==
    [name |-> name, email |-> email, phone |-> phone, location |-> location,
     linkedin_url |-> linkedin_url]
WE(company, job_title) ==
    [company |-> company, job_title |-> job_title, start_date |-> "2020-01",
     end_date |-> NULL, description |-> NULL]
PR(name, technologies) ==
    [name |-> name, description |-> NULL, technologies |-> technologies]
ED(institution) == [institution |-> institution, degree |-> "BSc", end_date |-> NULL]
RD(personal_info, summary, skills, work_experience, projects, education) ==
    [personal_info |-> personal_info, summary |-> summary, skills |-> skills,
     work_experience |-> work_experience, projects |-> projects,
     education |-> education]

\* The ResumeData records the requests draw from: two identities, an update that
\* nulls every optional field and repeats a skill name, an email/phone pair that
\* resolves to two different resumes, an empty-string email, a phone-only record.
Inputs == <<
    RD(PI("Ann", "a@x.com", "111", "NYC", "in/ann"), "s1", <<"Go">>,
       <<WE("Acme", "dev")>>, <<PR("p1", Some(<<<<"g">>, <<"g", "g">>>>))>>,
       <<ED("MIT")>>),
    RD(PI(NULL, "a@x.com", NULL, NULL, NULL), NULL, <<"Rust", "Rust">>,
       <<>>, <<>>, <<>>),
    RD(PI("Bob", "b@x.com", "222", NULL, NULL), "s2", <<"Go", "Rust">>,
       <<WE("Init", "ops"), WE("Acme", "dev")>>,
       <<PR("p2", Some(<<>>)), PR("p3", NoneOpt)>>, <<>>),
    RD(PI("Ann", "a@x.com", "222", NULL, NULL), "s3", <<>>,
       <<WE("Acme", "cto")>>, <<>>, <<ED("CMU")>>),
    RD(PI("Eve", "", NULL, NULL, NULL), "s4", <<"Go">>, <<>>, <<>>, <<>>),
    RD(PI("Ann", NULL, "111", NULL, NULL), NULL, <<>>, <<>>, <<>>, <<ED("MIT")>>)
>>

\* ---------------------------------------------------------- tables (models.py)
InitDb ==
    [resumes |-> <<>>,                      \* rows [id, summary]
     personal_info |-> <<>>,                \* rows [resume_id, name, email, phone, ...]
     work_experience |-> <<>>,              \* rows [resume_id, company, ...]
     projects |-> <<>>,                     \* rows [resume_id, name, description, technologies]
     education |-> <<>>,                    \* rows [resume_id, institution, ...]
     skills |-> <<>>,                       \* row i is the Skill with id i: its name
     resume_skill_association |-> <<>>,     \* rows [resume_id, skill_id]
     idseq |-> 0]                           \* highest resumes.id handed out so far

Ids(D) == {D.resumes[i].id : i \in DOMAIN D.resumes}

OfResume(tbl, rid) == LET Mine(r) == r.resume_id = rid IN SelectSeq(tbl, Mine)
NotOfResume(tbl, rid) == LET Other(r) == r.resume_id # rid IN SelectSeq(tbl, Other)

\* Query(...).first(): None or the first matching row
First(rows) == IF rows = <<>> THEN NoneOpt ELSE Some(rows[1])

\* resumes.id is an Integer primary key with no explicit sequence: the engine hands
\* out either max(id)+1 of the rows present (a rowid table reuses the identifier of
\* a deleted last row) or the next value of a sequence that never goes back.
NewIds(D) == {IF Ids(D) = {} THEN 1 ELSE Max(Ids(D)) + 1, D.idseq + 1}

\* personal_info.email / phone declared without unique=True
PersonalInfoUniqueViolated_Off(D, email, phone, self) == FALSE

\* unique=True on personal_info.email and personal_info.phone: NULLs never collide,
\* any other value (the empty string included) may appear in one row only.
\* `self` is the resume whose own row is being written (0 for an INSERT).
PersonalInfoUniqueViolated(D, email, phone, self) ==
    \E i \in DOMAIN D.personal_info :
        LET r == D.personal_info[i]
        IN  /\ r.resume_id # self
            /\ \/ email # NULL /\ r.email = email
               \/ phone # NULL /\ r.phone = phone

\* skills.name declared without unique=True
SkillNameUniqueViolated_Off(D, name) == FALSE

\* unique=True on skills.name
SkillNameUniqueViolated(D, name) == \E i \in DOMAIN D.skills : D.skills[i] = name

\* db.query(models.Skill).filter(models.Skill.name == skill_name).first():
\* the id of the first Skill with that name, 0 when there is none
FindSkill(D, name) ==
    IF \E i \in DOMAIN D.skills : D.skills[i] = name
    THEN CHOOSE i \in DOMAIN D.skills :
            D.skills[i] = name /\ \A j \in 1..(i - 1) : D.skills[j] # name
    ELSE 0

\* Identity resolution: by email when the incoming email is non-empty, else (or on
\* no match) by phone when the incoming phone is non-empty.
existing_info(D, rd) ==
    LET email == rd.personal_info.email
        phone == rd.personal_info.phone
        SameEmail(r) == r.email = email
        SamePhone(r) == r.phone = phone
        byEmail == IF Truthy(email) THEN First(SelectSeq(D.personal_info, SameEmail))
                   ELSE NoneOpt
    IN  IF byEmail = NoneOpt /\ Truthy(phone)
        THEN First(SelectSeq(D.personal_info, SamePhone))
        ELSE byEmail

\* db_resume.skills.clear()
clear_skills(D, t) ==
    [D EXCEPT !.resume_skill_association = NotOfResume(@, t)]

\* the update path with the bulk delete of work_experience left out
delete_children_KeepWork(D, t) ==
    [D EXCEPT !.projects = NotOfResume(@, t), !.education = NotOfResume(@, t)]

\* the three bulk deletes of the update path
delete_children(D, t) ==
    [D EXCEPT !.work_experience = NotOfResume(@, t),
              !.projects = NotOfResume(@, t),
              !.education = NotOfResume(@, t)]

PersonalInfoRow(t, pinfo) ==
    [resume_id |-> t, name |-> pinfo.name, email |-> pinfo.email,
     phone |-> pinfo.phone, location |-> pinfo.location,
     linkedin_url |-> pinfo.linkedin_url]

\* summary and every PersonalInfo column overwritten with the incoming values
overwrite_fields(D, t, rd) ==
    [D EXCEPT
        !.resumes = [i \in DOMAIN @ |->
            IF @[i].id = t THEN [@[i] EXCEPT !.summary = rd.summary] ELSE @[i]],
        !.personal_info = [i \in DOMAIN @ |->
            IF @[i].resume_id = t THEN PersonalInfoRow(t, rd.personal_info)
            ELSE @[i]]]

\* Create path: a Resume() with no column set, and its PersonalInfo.
create_resume(D, nid, rd) ==
    [D EXCEPT
        !.resumes = Append(@, [id |-> nid, summary |-> NULL]),
        !.personal_info = Append(@, PersonalInfoRow(nid, rd.personal_info)),
        !.idseq = IF nid > @ THEN nid ELSE @]

WorkExperienceRow(t, e) ==
    [resume_id |-> t, company |-> e.company, job_title |-> e.job_title,
     start_date |-> e.start_date, end_date |-> e.end_date,
     description |-> e.description]
ProjectRow(t, p) ==
    [resume_id |-> t, name |-> p.name, description |-> p.description,
     technologies |-> BindText(technologies_param(p.technologies))]
EducationRow(t, e) ==
    [resume_id |-> t, institution |-> e.institution, degree |-> e.degree,
     end_date |-> e.end_date]

\* The rows appended to the three owned collections, in input order.
append_children(D, t, rd) ==
    [D EXCEPT
        !.work_experience = @ \o [i \in DOMAIN rd.work_experience |->
                                    WorkExperienceRow(t, rd.work_experience[i])],
        !.projects = @ \o [i \in DOMAIN rd.projects |-> ProjectRow(t, rd.projects[i])],
        !.education = @ \o [i \in DOMAIN rd.education |->
                                    EducationRow(t, rd.education[i])]]

\* first occurrences only
RECURSIVE Dedup(_)
Dedup(s) ==
    IF s = <<>> THEN <<>>
    ELSE LET NotHead(x) == x # Head(s)
         IN  <<Head(s)>> \o Dedup(SelectSeq(Tail(s), NotHead))

\* db_resume.skills is a list relationship over an association table with no key:
\* a flush inserts one row per appended Skill that the collection did not hold
\* when it was loaded. With autoflush every query in get_or_create_skill flushes,
\* so a Skill appended a second time is already held; without it the appends
\* made between two commits are flushed together, repeats included.
skills_added(D, t, pend, af) ==
    LET rows == OfResume(D.resume_skill_association, t)
        held == {rows[i].skill_id : i \in DOMAIN rows}
        NotHeld(sk) == sk \notin held
        fresh == SelectSeq(pend, NotHeld)
    IN  IF af THEN Dedup(fresh) ELSE fresh

append_skills(D, t, pend, af) ==
    LET add == skills_added(D, t, pend, af)
    IN  [D EXCEPT !.resume_skill_association =
            @ \o [i \in DOMAIN add |-> [resume_id |-> t, skill_id |-> add[i]]]]

\* the owned relationships declared without cascade: only the resumes row and
\* the association rows are deleted
cascade_delete_NoCascade(D, id) ==
    LET NotIt(r) == r.id # id
    IN  [clear_skills(D, id) EXCEPT !.resumes = SelectSeq(@, NotIt)]

\* db.delete(db_resume): the association rows of the resume go with it, and
\* cascade="all, delete-orphan" removes the rows of the four owned relationships.
cascade_delete(D, id) ==
    LET NotIt(r) == r.id # id
    IN  [delete_children(clear_skills(D, id), id) EXCEPT
            !.resumes = SelectSeq(@, NotIt),
            !.personal_info = NotOfResume(@, id)]

\* --------------------------------------------------------------- read side
NotFound == [status |-> 404]

SkillNames(D, rid) ==
    LET rows == OfResume(D.resume_skill_association, rid)
    IN  [i \in DOMAIN rows |-> D.skills[rows[i].skill_id]]

\* GET /resumes/{resume_id}: 404, or the aggregate with skills as names and
\* project technologies as lists.
read_resume(D, id) ==
    IF id \notin Ids(D) THEN NotFound
    ELSE LET IsIt(r) == r.id = id
             res == SelectSeq(D.resumes, IsIt)[1]
             prj == OfResume(D.projects, id)
         IN  [status |-> 200,
              personal_info |-> First(OfResume(D.personal_info, id)),
              summary |-> res.summary,
              skills |-> SkillNames(D, id),
              work_experience |-> OfResume(D.work_experience, id),
              projects |-> [i \in DOMAIN prj |->
                  [prj[i] EXCEPT !.technologies = split_technologies(@)]],
              education |-> OfResume(D.education, id)]

\* ---------------------------------------------------------------- sessions
\* pc: "idle" | "skill_query" | "skill_commit" | "tail" | "done"
IdleSess ==
    [pc |-> "idle", op |-> "-", in |-> 0, arg |-> 0, path |-> "-", target |-> 0,
     flushed |-> FALSE, k |-> 0, pend |-> <<>>, status |-> "-"]

AllIdle == \A q \in Procs : sess[q].pc = "idle"

Data(s) == Inputs[s.in]

AfterSkill(s) ==
    IF s.k < Len(Data(s).skills) THEN "skill_query" ELSE "tail"

\* The session's pending base write, flushed by its first commit: the INSERTs of
\* the create path, or the clear / bulk deletes / UPDATEs of the update path.
\* Once flushed the objects are expired and reloaded by primary key.
\* Returns the error raised ("" for none), the tables and the resume's id.
flush_base(D, s, nid) ==
    LET rd == Data(s)
        email == rd.personal_info.email
        phone == rd.personal_info.phone
    IN  IF s.flushed
        THEN [err |-> IF s.target \in Ids(D) THEN "" ELSE "StaleDataError",
              db |-> D, target |-> s.target]
        ELSE IF s.path = "create"
        THEN IF PersonalInfoUniqueViolated(D, email, phone, 0)
             THEN [err |-> "IntegrityError", db |-> D, target |-> 0]
             ELSE [err |-> "", db |-> create_resume(D, nid, rd), target |-> nid]
        ELSE IF s.target \notin Ids(D) \/ OfResume(D.personal_info, s.target) = <<>>
        THEN [err |-> "StaleDataError", db |-> D, target |-> s.target]
        ELSE IF PersonalInfoUniqueViolated(D, email, phone, s.target)
        THEN [err |-> "IntegrityError", db |-> D, target |-> s.target]
        ELSE [err |-> "",
              db |-> overwrite_fields(
                        delete_children(clear_skills(D, s.target), s.target),
                        s.target, rd),
              target |-> s.target]

\* flush of everything pending before a commit: the base write, then the
\* association rows of the skills appended since the last commit
flush(D, s, nid) ==
    LET b == flush_base(D, s, nid)
    IN  IF b.err # "" THEN b
        ELSE [b EXCEPT !.db = append_skills(@, b.target, s.pend, autoflush)]

\* The request ends with an exception: the session is closed, which rolls back.
Abort(p, kind) ==
    /\ sess' = [sess EXCEPT ![p].pc = "done", ![p].status = kind, ![p].pend = <<>>]
    /\ db' = db

\* create_or_update_resume, lines 18-53: identity lookup and the pending writes
\* of the update or the create path.
Begin(p, i) ==
    /\ sess[p].pc = "idle"
    /\ ncalls < MaxCalls
    /\ LET rd == Inputs[i]
           ei == existing_info(db, rd)
       IN  sess' = [sess EXCEPT ![p] =
               [pc |-> IF Len(rd.skills) > 0 THEN "skill_query" ELSE "tail",
                op |-> "upsert", in |-> i, arg |-> 0,
                path |-> IF ei = NoneOpt THEN "create" ELSE "update",
                target |-> IF ei = NoneOpt THEN 0 ELSE ei[1].resume_id,
                flushed |-> FALSE, k |-> 0, pend |-> <<>>, status |-> "-"]]
    /\ ncalls' = ncalls + 1
    /\ UNCHANGED <<db, tech>>

\* get_or_create_skill, line 6, for the next incoming name; a Skill that exists
\* is appended to db_resume.skills right away (line 60).
SkillQuery(p) ==
    LET s == sess[p]
        name == Data(s).skills[s.k + 1]
        sk == FindSkill(db, name)
    IN  /\ s.pc = "skill_query"
        /\ sess' = [sess EXCEPT ![p] =
              IF sk = 0 THEN [s EXCEPT !.pc = "skill_commit"]
              ELSE [s EXCEPT !.pend = Append(@, sk), !.k = @ + 1,
                             !.pc = AfterSkill([s EXCEPT !.k = @ + 1])]]
        /\ UNCHANGED <<db, ncalls, tech>>

\* get_or_create_skill, lines 8-11: the new Skill is added and db.commit() commits
\* the whole session, the pending resume writes included; then line 60 appends it.
SkillCommit(p) ==
    LET s == sess[p]
        name == Data(s).skills[s.k + 1]
    IN  /\ s.pc = "skill_commit"
        /\ \E ok \in BOOLEAN, nid \in NewIds(db) :
              LET f == flush(db, s, nid)
              IN  IF ~ok THEN Abort(p, "StorageError")
                  ELSE IF f.err # "" THEN Abort(p, f.err)
                  ELSE IF SkillNameUniqueViolated(db, name)
                  THEN Abort(p, "IntegrityError")
                  ELSE /\ db' = [f.db EXCEPT !.skills = Append(@, name)]
                       /\ sess' = [sess EXCEPT ![p] =
                             [s EXCEPT !.flushed = TRUE, !.target = f.target,
                                       !.pend = <<Len(db.skills) + 1>>,
                                       !.k = @ + 1,
                                       !.pc = AfterSkill([s EXCEPT !.k = @ + 1])]]
        /\ UNCHANGED <<ncalls, tech>>

\* create_or_update_resume, lines 62-82: the owned rows are appended and the
\* final db.commit() flushes and commits what is pending.
Finish(p) ==
    LET s == sess[p]
    IN  /\ s.pc = "tail"
        /\ \E ok \in BOOLEAN, nid \in NewIds(db) :
              LET f == flush(db, s, nid)
              IN  IF ~ok THEN Abort(p, "StorageError")
                  ELSE IF f.err # "" THEN Abort(p, f.err)
                  ELSE /\ db' = append_children(f.db, f.target, Data(s))
                       /\ sess' = [sess EXCEPT ![p] =
                             [s EXCEPT !.pc = "done", !.status = "ok",
                                       !.target = f.target, !.flushed = TRUE,
                                       !.pend = <<>>]]
        /\ UNCHANGED <<ncalls, tech>>

\* DELETE /resumes/{resume_id}
delete_resume(p, id) ==
    /\ sess[p].pc = "idle"
    /\ ncalls < MaxCalls
    /\ ncalls' = ncalls + 1
    /\ \E ok \in BOOLEAN :
          LET found == id \in Ids(db)
              st == IF ~found THEN "404" ELSE IF ok THEN "200" ELSE "StorageError"
          IN  /\ db' = IF found /\ ok THEN cascade_delete(db, id) ELSE db
              /\ sess' = [sess EXCEPT ![p] =
                    [IdleSess EXCEPT !.pc = "done", !.op = "delete", !.arg = id,
                                     !.status = st]]
    /\ UNCHANGED tech

\* The response is sent and the request's session is gone.
Return(p) ==
    /\ sess[p].pc = "done"
    /\ sess' = [sess EXCEPT ![p] = IdleSess]
    /\ UNCHANGED <<db, ncalls, tech>>

\* ------------------------------------------- technologies round trip (TechSpec)
Tags == UNION {[1..n -> Chars] : n \in 0..MaxTagLen}
TagLists == UNION {[1..n -> Tags] : n \in 0..MaxTags}

TechIdle == [pc |-> "off", tags |-> NoneOpt, stored |-> NoneOpt, loaded |-> NoneOpt]

\* models.Project(**proj_data) flushed: the technologies column is written
TechPersist ==
    /\ tech.pc = "new"
    /\ tech' = [tech EXCEPT !.pc = "stored",
                            !.stored = BindText(technologies_param(tech.tags))]
    /\ UNCHANGED <<db, sess, ncalls, autoflush, pre>>

\* a driver that does not accept a list parameter rejects the INSERT
TechReject ==
    /\ tech.pc = "new"
    /\ NeedsLenientDriver(technologies_param(tech.tags))
    /\ tech' = [tech EXCEPT !.pc = "rejected"]
    /\ UNCHANGED <<db, sess, ncalls, autoflush, pre>>

\* schemas.Project built from the stored row
TechRead ==
    /\ tech.pc = "stored"
    /\ tech' = [tech EXCEPT !.pc = "read", !.loaded = split_technologies(tech.stored)]
    /\ UNCHANGED <<db, sess, ncalls, autoflush, pre>>

\* ------------------------------------------------------------ specifications
Init ==
    /\ db = InitDb
    /\ sess = [p \in Procs |-> IdleSess]
    /\ ncalls = 0
    /\ autoflush \in BOOLEAN
    /\ pre = InitDb
    /\ tech = TechIdle

\* requests interleave freely
Next ==
    /\ \E p \in Procs :
          \/ \E i \in DOMAIN Inputs : Begin(p, i)
          \/ SkillQuery(p)
          \/ SkillCommit(p)
          \/ Finish(p)
          \/ \E id \in 1..MaxCalls : delete_resume(p, id)
          \/ Return(p)
    /\ UNCHANGED <<autoflush, pre>>

Spec == Init /\ [][Next]_vars

\* One request at a time; the committed state it started from is kept in pre
\* until its response is returned, so that the outcome can be compared with it.
NextSeq ==
    /\ \/ \E i \in DOMAIN Inputs : AllIdle /\ Begin(1, i) /\ pre' = db
       \/ SkillQuery(1) /\ UNCHANGED pre
       \/ SkillCommit(1) /\ UNCHANGED pre
       \/ Finish(1) /\ UNCHANGED pre
       \/ \E id \in 1..MaxCalls : AllIdle /\ delete_resume(1, id) /\ pre' = db
       \/ Return(1) /\ pre' = InitDb
    /\ UNCHANGED autoflush

SeqSpec == Init /\ [][NextSeq]_vars

InitTech ==
    /\ db = InitDb
    /\ sess = [p \in Procs |-> IdleSess]
    /\ ncalls = 0
    /\ autoflush = FALSE
    /\ pre = InitDb
    /\ \E t \in {NoneOpt} \cup {Some(l) : l \in TagLists} :
          tech = [pc |-> "new", tags |-> t, stored |-> NoneOpt, loaded |-> NoneOpt]

NextTech == TechPersist \/ TechReject \/ TechRead

TechSpec == InitTech /\ [][NextTech]_vars

\* ------------------------------------------------------------------ claims
S == sess[1]                    \* the one request of SeqSpec
RD1 == Inputs[S.in]

UpsertDone == S.pc = "done" /\ S.op = "upsert"
InProgress == S.op = "upsert" /\ S.pc \in {"skill_query", "skill_commit", "tail"}

\* resumes, personal info, owned rows and skill memberships (not the skill pool)
Stored(D) == [D EXCEPT !.skills = <<>>, !.idseq = 0]

\* everything stored for one resume
Aggregate(D, id) ==
    [resume |-> LET IsIt(r) == r.id = id IN SelectSeq(D.resumes, IsIt),
     personal_info |-> OfResume(D.personal_info, id),
     work_experience |-> OfResume(D.work_experience, id),
     projects |-> OfResume(D.projects, id),
     education |-> OfResume(D.education, id),
     skills |-> SkillNames(D, id)]

\* the complete new content of resume t after an upsert of rd
NewAggregate(t, rd) ==
    [resume |-> <<[id |-> t, summary |-> rd.summary]>>,
     personal_info |-> <<PersonalInfoRow(t, rd.personal_info)>>,
     work_experience |-> [i \in DOMAIN rd.work_experience |->
                             WorkExperienceRow(t, rd.work_experience[i])],
     projects |-> [i \in DOMAIN rd.projects |-> ProjectRow(t, rd.projects[i])],
     education |-> [i \in DOMAIN rd.education |-> EducationRow(t, rd.education[i])],
     skills |-> rd.skills]

\* no stored row of any table refers to resume id
Gone(D, id) ==
    /\ read_resume(D, id) = NotFound
    /\ OfResume(D.personal_info, id) = <<>>
    /\ OfResume(D.work_experience, id) = <<>>
    /\ OfResume(D.projects, id) = <<>>
    /\ OfResume(D.education, id) = <<>>
    /\ OfResume(D.resume_skill_association, id) = <<>>

\* the resume that owns the stored PersonalInfo with this email / phone
ByEmail(D, email) ==
    {D.personal_info[i].resume_id : i \in {j \in DOMAIN D.personal_info :
                                              D.personal_info[j].email = email}}
ByPhone(D, phone) ==
    {D.personal_info[i].resume_id : i \in {j \in DOMAIN D.personal_info :
                                              D.personal_info[j].phone = phone}}

\* C1 (Spec): in every reachable state, under any interleaving of upserts and
\* deletes, no two stored PersonalInfo rows carry the same non-null email, and no
\* two carry the same non-null phone.
C1_UniqueIdentity ==
    \A i, j \in DOMAIN db.personal_info :
        i # j =>
            /\ db.personal_info[i].email # NULL =>
                  db.personal_info[i].email # db.personal_info[j].email
            /\ db.personal_info[i].phone # NULL =>
                  db.personal_info[i].phone # db.personal_info[j].phone

\* two concurrent creates decided "no match" for one email; the loser's insert was
\* refused by the unique constraint
C1_Witness ==
    \E p \in Procs :
        /\ sess[p].pc = "done" /\ sess[p].op = "upsert" /\ sess[p].path = "create"
        /\ sess[p].status = "IntegrityError"
        /\ Truthy(Inputs[sess[p].in].personal_info.email)
        /\ ByEmail(db, Inputs[sess[p].in].personal_info.email) # {}

\* C2 (SeqSpec): an upsert that fails leaves the stored resumes, personal info,
\* owned rows and skill memberships exactly as they were when it started.
C2_AllOrNothing ==
    (UpsertDone /\ S.status # "ok") => Stored(db) = Stored(pre)

\* C3 (SeqSpec): while an upsert of an existing resume is in progress, the
\* committed content of that resume is its complete old content or its complete
\* new content.
C3_NoHalfUpdate ==
    (InProgress /\ S.path = "update") =>
        \/ Aggregate(db, S.target) = Aggregate(pre, S.target)
        \/ Aggregate(db, S.target) = NewAggregate(S.target, RD1)

\* C4 (SeqSpec): a successful upsert whose non-empty email is the email of stored
\* resume R keeps the number of resumes, and leaves R with exactly the incoming
\* work-experience, project and education rows in input order, exactly the
\* incoming set of skill names, and the incoming summary and personal-info fields.
C4_Case ==
    /\ UpsertDone /\ S.status = "ok"
    /\ Truthy(RD1.personal_info.email)
    /\ ByEmail(pre, RD1.personal_info.email) # {}

C4_UpdateByEmail ==
    C4_Case =>
        \A R \in ByEmail(pre, RD1.personal_info.email) :
            LET new == NewAggregate(R, RD1)
                now == Aggregate(db, R)
            IN  /\ Len(db.resumes) = Len(pre.resumes)
                /\ Ids(db) = Ids(pre)
                /\ now.work_experience = new.work_experience
                /\ now.projects = new.projects
                /\ now.education = new.education
                /\ SeqToSet(now.skills) = SeqToSet(new.skills)
                /\ now.resume = new.resume
                /\ now.personal_info = new.personal_info

\* an update that nulls stored fields and replaces stored rows and skills
C4_Witness ==
    /\ C4_Case
    /\ RD1.personal_info.name = NULL /\ RD1.summary = NULL
    /\ \E R \in ByEmail(pre, RD1.personal_info.email) :
          /\ Aggregate(pre, R).work_experience # <<>>
          /\ Aggregate(pre, R).skills # <<>>
          /\ Aggregate(pre, R).personal_info[1].name # NULL
          /\ SeqToSet(Aggregate(pre, R).skills) # SeqToSet(RD1.skills)

\* C5 (SeqSpec): when the incoming email matches stored resume R1 and the incoming
\* phone matches a different stored resume R2, the upsert succeeds, R1 holds the
\* incoming data and R2 is unmodified.
C5_Case ==
    /\ UpsertDone /\ S.status # "StorageError"
    /\ Truthy(RD1.personal_info.email) /\ Truthy(RD1.personal_info.phone)
    /\ \E R1 \in ByEmail(pre, RD1.personal_info.email),
          R2 \in ByPhone(pre, RD1.personal_info.phone) : R1 # R2

C5_EmailWins ==
    C5_Case =>
        /\ S.status = "ok"
        /\ \A R1 \in ByEmail(pre, RD1.personal_info.email) :
              Aggregate(db, R1).personal_info =
                  <<PersonalInfoRow(R1, RD1.personal_info)>>
        /\ \A R2 \in ByPhone(pre, RD1.personal_info.phone) :
              Aggregate(db, R2) = Aggregate(pre, R2)

\* C6 (SeqSpec): an upsert with email "" and no phone succeeds, adds exactly one
\* resume and modifies no resume stored before.
C6_Case ==
    /\ UpsertDone /\ S.status # "StorageError"
    /\ RD1.personal_info.email = "" /\ RD1.personal_info.phone = NULL

C6_EmptyEmailCreates ==
    C6_Case =>
        /\ S.status = "ok"
        /\ Len(db.resumes) = Len(pre.resumes) + 1
        /\ \A id \in Ids(pre) : Aggregate(db, id) = Aggregate(pre, id)

\* C7 (Spec): every step leaves at most one Skill per name, every association row
\* refers to a Skill of the pool, and the pool only grows: the skills stored
\* before a step are still stored, with the same ids, after it.
SkillPoolOK(D) ==
    /\ \A i, j \in DOMAIN D.skills : i # j => D.skills[i] # D.skills[j]
    /\ \A i \in DOMAIN D.resume_skill_association :
          /\ D.resume_skill_association[i].skill_id \in DOMAIN D.skills
          /\ D.resume_skill_association[i].skill_id =
                FindSkill(D, D.skills[D.resume_skill_association[i].skill_id])

IsPrefix(a, b) == Len(a) <= Len(b) /\ SubSeq(b, 1, Len(a)) = a

C7_SkillPool == [][SkillPoolOK(db') /\ IsPrefix(db.skills, db'.skills)]_vars

\* the last resume was deleted and the skills it listed are still in the pool
C7_Witness ==
    \E p \in Procs :
        /\ sess[p].pc = "done" /\ sess[p].op = "delete" /\ sess[p].status = "200"
        /\ db.resumes = <<>> /\ db.resume_skill_association = <<>>
        /\ Len(db.skills) = 2

\* C8 (SeqSpec), as amended: a delete of a stored identifier removes the resume
\* and every row that refers to it; a delete of an identifier that is not stored
\* answers 404 and changes nothing; and an identifier that is gone stays gone
\* until the create path of a later upsert is assigned that identifier.
DeleteStep == S.pc = "idle" /\ S'.pc = "done" /\ S'.op = "delete"

DeleteEffect ==
    DeleteStep =>
        /\ S'.arg \notin Ids(db) <=> S'.status = "404"
        /\ S'.status = "404" => db' = db
        /\ S'.status = "200" => Gone(db', S'.arg)
        /\ S'.status \in {"200", "404", "StorageError"}

CreatedNow(id) ==
    /\ S.op = "upsert" /\ S.path = "create" /\ ~S.flushed
    /\ S'.flushed /\ S'.target = id

C8_DeleteCascades ==
    [][/\ DeleteEffect
       /\ \A id \in 1..MaxCalls :
             (Gone(db, id) /\ ~Gone(db', id)) => CreatedNow(id)]_vars

\* a resume with personal info, owned rows and skills was deleted
C8_Witness ==
    /\ S.pc = "done" /\ S.op = "delete" /\ S.status = "200"
    /\ Aggregate(pre, S.arg).personal_info # <<>>
    /\ Aggregate(pre, S.arg).work_experience # <<>>
    /\ Aggregate(pre, S.arg).projects # <<>>
    /\ Aggregate(pre, S.arg).education # <<>>
    /\ Aggregate(pre, S.arg).skills # <<>>
    /\ Gone(db, S.arg)

\* C8 as stated: after the delete the identifier answers not-found ever after.
C8_NotFoundForever ==
    [][/\ DeleteEffect
       /\ \A id \in 1..db.idseq :
             read_resume(db, id) = NotFound => read_resume(db', id) = NotFound]_vars

\* C9 (TechSpec) as stated: every incoming technology list that was comma-joined
\* and persisted is, read back, the list that came in.
TechIsList == tech.tags # NoneOpt
TechJoined == technologies_param(tech.tags).kind = "str"
C9_RoundTrip ==
    (tech.pc = "read" /\ TechIsList /\ TechJoined) => tech.loaded = tech.tags

\* C9 as amended: the round trip returns the incoming list when the list is not
\* empty and no tag contains a comma or starts or ends with whitespace.
CleanTag(tag) == Strip(tag) = tag /\ \A i \in DOMAIN tag : tag[i] # Comma
CleanList(l) == l # <<>> /\ \A i \in DOMAIN l : CleanTag(l[i])

C9_RoundTripClean ==
    (tech.pc = "read" /\ TechIsList /\ CleanList(tech.tags[1])) =>
        tech.loaded = tech.tags

\* two tags, one of them of more than one character, came back
C9_Witness ==
    /\ tech.pc = "read" /\ TechIsList /\ CleanList(tech.tags[1])
    /\ Len(tech.tags[1]) >= 2
    /\ \E i \in DOMAIN tech.tags[1] : Len(tech.tags[1][i]) >= 2
    /\ tech.loaded = tech.tags

\* C10 (SeqSpec): after a successful upsert the resume's association rows hold
\* each Skill at most once.
C10_NoDuplicateMembership ==
    (UpsertDone /\ S.status = "ok") =>
        LET rows == OfResume(db.resume_skill_association, S.target)
        IN  \A i, j \in DOMAIN rows : i # j => rows[i].skill_id # rows[j].skill_id
====
